---- MODULE Spec2Model ----
(***************************************************************************)
(* Session lifecycle handlers of src/controllers/initializer.ts (create)   *)
(* and the new-message buffering pipeline of                                *)
(* src/lib/wapi/listeners/init-listeners.js (initNewMessagesListener).      *)
(*                                                                          *)
(* Three independent parts share no state:                                  *)
(*   - the reconnect onStateChange handler (initializer.ts 420-450),        *)
(*   - the onInterfaceChange handler       (initializer.ts 265-340),        *)
(*   - the 'add' listener, its debouncer and _unloadInform                  *)
(*                                         (init-listeners.js 1-76).        *)
(* An async handler is split at each await: the part before the await is    *)
(* one action, the settling of the awaited promise together with the        *)
(* continuation that follows it is another.                                 *)
(***************************************************************************)
EXTENDS Integers, Sequences, FiniteSets, TLC

\* ------------------------------------------------------------------ bounds
MaxStateChanges == 4
MaxObservations == 3
\* 'add' events, calls of waitNewMessages and calls of _unloadInform, together
MaxInputs == 4

\* --------------------------------------------------------------- constants
\* setTimeout(..., 1000)
DebounceMs == 1000
\* The clock advances in steps of half the debounce time.
TickMs == DebounceMs \div 2

SocketStates == {"PAIRING", "UNPAIRED", "UNPAIRED_IDLE", "CONNECTED", "OPENING"}
SocketStreams == {"CONNECTED", "DISCONNECTED"}
InterfaceModes == {"QR", "SYNCING", "MAIN"}
InterfaceStates == {"OPENING", "PAIRING", "NORMAL"}

InterfaceStateChange ==
  {"qrcodeOpening", "qrcodeLoading", "qrcodeNormal",
   "syncingOpening", "syncingLoading", "syncingNormal", "chatsAvailable"}

VARIABLES
  \* reconnect handler
  reconnectQrcode,       \* TRUE iff create() was given a reconnectQrcode hook
  waitLoginPromise,      \* the closure variable: 0 (null) or a promise id
  loginPromises,         \* promise id -> "pending" | "true" | "false" | "rejected"
  stateLog,              \* socket states notified to the handler, in order
  reconnectQrcodeCalls,  \* promise ids after whose await the hook was called
  \* onInterfaceChange handler
  interfaceChange,       \* TRUE iff an interfaceChange observer was given
  statusFind,            \* TRUE iff a statusFind observer was given
  observations,          \* the observations handled, in order of arrival
  evaluate,              \* per observation: "none" | "pending" | "resolved" | "rejected"
  interfaceLog,          \* calls of interfaceChange: [obs, status], in order
  statusFindLog,         \* calls of statusFind: [status, of], of = the call that made it
  streamChanges,         \* stateStream values the onStreamChange handler was called with
  streamEvaluate,        \* per stream change: its page.evaluate, as in evaluate
  streamRead,            \* history: per observation, the stream its page.evaluate returned
  \* new-message listener
  rawEvents,             \* 'add' events in order of arrival: [isNewMsg, isSentByMe]
  processing,            \* per event: "dropped" | "processing" | "pushed" | "falsy" | "rejected"
  msgObj,                \* the message objects processMessageObj returned: id -> properties
  newMessagesQueue,      \* window.WAPI._newMessagesQueue: message ids
  newMessagesBuffer,     \* window.WAPI._newMessagesBuffer: message ids
  newMessagesDebouncer,  \* window.WAPI._newMessagesDebouncer: 0 (null) or a timer handle
  timer,                 \* setTimeout calls so far, and the ms left of the last: [count, left]
  newMessagesCallbacks,  \* window.WAPI._newMessagesCallbacks: [id, rmAfterUse, behaviour]
  registered,            \* calls of waitNewMessages so far
  savedMsgs,             \* sessionStorage 'saved_msgs': <<>> (no item) or <<item>>
  unloads,               \* per call of _unloadInform: what setItem did
  accepted,              \* history: message ids in the order they were pushed
  flushLog,              \* history: per flush [batch, callbacks] at its start
  handlerCalls           \* history: calls of callbacks [cb, kind, batch, flush]

reconnectVars ==
  <<reconnectQrcode, waitLoginPromise, loginPromises, stateLog, reconnectQrcodeCalls>>
interfaceVars ==
  <<interfaceChange, statusFind, observations, evaluate, interfaceLog, statusFindLog,
    streamChanges, streamEvaluate, streamRead>>
bufferVars ==
  <<rawEvents, processing, msgObj, newMessagesQueue, newMessagesBuffer,
    newMessagesDebouncer, timer, newMessagesCallbacks, registered, savedMsgs,
    unloads, accepted, flushLog, handlerCalls>>
vars == <<reconnectVars, interfaceVars, bufferVars>>

\* ================================================================ reconnect

IsUnpaired(state) == state \in {"UNPAIRED", "UNPAIRED_IDLE"}

InFlight == {p \in 1..Len(loginPromises) : loginPromises[p] = "pending"}

\* if (!waitLoginPromise)
MayStartLogin(promise) == promise = 0

InitReconnect ==
  /\ reconnectQrcode \in BOOLEAN
  /\ waitLoginPromise = 0
  /\ loginPromises = <<>>
  /\ stateLog = <<>>
  /\ reconnectQrcodeCalls = <<>>

\* The handler registered with client.onStateChange is called with `state`.
\* It runs up to `await waitLoginPromise` (a new attempt) or to its end.
OnStateChange(state) ==
  /\ Len(stateLog) < MaxStateChanges
  /\ stateLog' = Append(stateLog, state)
  /\ IF IsUnpaired(state)
       THEN IF MayStartLogin(waitLoginPromise)
              THEN \* waitLoginPromise = client.waitForLogin(...); await ...
                   /\ loginPromises' = Append(loginPromises, "pending")
                   /\ waitLoginPromise' = Len(loginPromises) + 1
              ELSE \* the try block is skipped; waitLoginPromise = null
                   /\ waitLoginPromise' = 0
                   /\ UNCHANGED loginPromises
       ELSE UNCHANGED <<waitLoginPromise, loginPromises>>
  /\ UNCHANGED <<reconnectQrcode, reconnectQrcodeCalls, interfaceVars, bufferVars>>

\* The hook is called after the await returns, whatever value it returned.
HookRuns(outcome) == outcome # "rejected"

\* The marker is cleared inside the try block: a rejection leaves it set.
MarkerAfterSettleInTry(marker, outcome) == IF outcome = "rejected" THEN marker ELSE 0

\* waitLoginPromise = null, after the try/catch, on every path out of it.
MarkerAfterSettle(marker, outcome) == 0

\* The handler calls client.waitForLogin again when the attempt failed.
PromisesAfterSettleRetry(promises, p, outcome) ==
  IF outcome = "true"
    THEN [promises EXCEPT ![p] = outcome]
    ELSE Append([promises EXCEPT ![p] = outcome], "pending")

\* The promises once attempt p has settled: the handler starts no other.
PromisesAfterSettle(promises, p, outcome) == [promises EXCEPT ![p] = outcome]

\* client.waitForLogin of attempt p settles and the handler that awaits it
\* continues to its end.
WaitForLoginSettles(p, outcome) ==
  /\ p \in InFlight
  /\ loginPromises' = PromisesAfterSettle(loginPromises, p, outcome)
  /\ reconnectQrcodeCalls' =
       IF HookRuns(outcome) /\ reconnectQrcode
         THEN Append(reconnectQrcodeCalls, p)
         ELSE reconnectQrcodeCalls
  /\ waitLoginPromise' = MarkerAfterSettle(waitLoginPromise, outcome)
  /\ UNCHANGED <<reconnectQrcode, stateLog, interfaceVars, bufferVars>>

NextReconnect ==
  \/ \E state \in SocketStates : OnStateChange(state)
  \/ \E p \in 1..MaxStateChanges, outcome \in {"true", "false", "rejected"} :
       WaitForLoginSettles(p, outcome)

\* ================================================================ interface

\* StatusOf with the QR/PAIRING and QR/NORMAL statuses exchanged.
StatusOfSwapped(mode, info) ==
  CASE mode = "MAIN" -> "chatsAvailable"
    [] mode = "SYNCING" /\ info = "OPENING" -> "syncingOpening"
    [] mode = "SYNCING" /\ info = "PAIRING" -> "syncingLoading"
    [] mode = "SYNCING" /\ info = "NORMAL" -> "syncingNormal"
    [] mode = "QR" /\ info = "OPENING" -> "qrcodeOpening"
    [] mode = "QR" /\ info = "PAIRING" -> "qrcodeNormal"
    [] mode = "QR" /\ info = "NORMAL" -> "qrcodeLoading"

\* The status the handler passes to interfaceChange for (mode, info).
StatusOf(mode, info) ==
  CASE mode = "MAIN" -> "chatsAvailable"
    [] mode = "SYNCING" /\ info = "OPENING" -> "syncingOpening"
    [] mode = "SYNCING" /\ info = "PAIRING" -> "syncingLoading"
    [] mode = "SYNCING" /\ info = "NORMAL" -> "syncingNormal"
    [] mode = "QR" /\ info = "OPENING" -> "qrcodeOpening"
    [] mode = "QR" /\ info = "PAIRING" -> "qrcodeLoading"
    [] mode = "QR" /\ info = "NORMAL" -> "qrcodeNormal"

\* The failed read takes the notifications made so far with it.
AfterProbeFailureForgets(log) == <<>>

\* The catch block of a handler: logger.error(...) and nothing else, so what
\* the observers were told so far stands.
AfterProbeFailure(log) == log

\* interfaceChange && interfaceChange(status, session)
Notify(log, i, status) ==
  IF interfaceChange THEN Append(log, [obs |-> i, status |-> status]) ELSE log

\* The calls of the onInterfaceChange and onStreamChange handlers so far.
Observed == Len(observations) + Len(streamChanges)

InitInterface ==
  /\ interfaceChange \in BOOLEAN
  /\ statusFind \in BOOLEAN
  /\ observations = <<>>
  /\ evaluate = <<>>
  /\ interfaceLog = <<>>
  /\ statusFindLog = <<>>
  /\ streamChanges = <<>>
  /\ streamEvaluate = <<>>
  /\ streamRead = <<>>

\* The handler registered with client.onInterfaceChange is called with
\* interFace = {mode, info}. MAIN and SYNCING run to the end; QR runs up to
\* `await page.evaluate(...)`.
OnInterfaceChange(mode, info) ==
  LET i == Len(observations) + 1 IN
  /\ Observed < MaxObservations
  /\ observations' = Append(observations, [mode |-> mode, info |-> info])
  /\ IF mode = "QR"
       THEN /\ evaluate' = Append(evaluate, "pending")
            /\ UNCHANGED interfaceLog
       ELSE /\ evaluate' = Append(evaluate, "none")
            /\ interfaceLog' = Notify(interfaceLog, i, StatusOf(mode, info))
  /\ streamRead' = Append(streamRead, "none")
  /\ UNCHANGED <<interfaceChange, statusFind, statusFindLog, streamChanges,
                 streamEvaluate, reconnectVars, bufferVars>>

\* The state is reported only when the stream is not DISCONNECTED.
ReportsStateUnlessDisconnected(stream) == stream # "DISCONNECTED"

\* The three tests of interFace.info follow the test of the stream, they are
\* not its else branch: the state is reported whatever the stream is.
ReportsState(stream) == TRUE

\* page.evaluate of observation i resolves with the socket stream value and
\* the rest of the try block runs.
EvaluateResolves(i, stream) ==
  /\ i \in 1..Len(observations)
  /\ evaluate[i] = "pending"
  /\ evaluate' = [evaluate EXCEPT ![i] = "resolved"]
  /\ streamRead' = [streamRead EXCEPT ![i] = stream]
  /\ statusFindLog' =
       IF stream = "DISCONNECTED" /\ statusFind
         THEN Append(statusFindLog, [status |-> "disconnected", of |-> i])
         ELSE statusFindLog
  /\ interfaceLog' =
       IF ReportsState(stream)
         THEN Notify(interfaceLog, i, StatusOf(observations[i].mode, observations[i].info))
         ELSE interfaceLog
  /\ UNCHANGED <<interfaceChange, statusFind, observations, streamChanges,
                 streamEvaluate, reconnectVars, bufferVars>>

\* page.evaluate of observation i rejects: the catch block logs the error.
EvaluateRejects(i) ==
  /\ i \in 1..Len(observations)
  /\ evaluate[i] = "pending"
  /\ evaluate' = [evaluate EXCEPT ![i] = "rejected"]
  /\ interfaceLog' = AfterProbeFailure(interfaceLog)
  /\ statusFindLog' = AfterProbeFailure(statusFindLog)
  /\ UNCHANGED <<interfaceChange, statusFind, observations, streamChanges,
                 streamEvaluate, streamRead, reconnectVars, bufferVars>>

\* The handler registered with client.onStreamChange is called with
\* stateStream. CONNECTED runs to the end; DISCONNECTED runs up to
\* `await page.evaluate(...)`.
OnStreamChange(stateStream) ==
  /\ Observed < MaxObservations
  /\ streamChanges' = Append(streamChanges, stateStream)
  /\ streamEvaluate' =
       Append(streamEvaluate, IF stateStream = "DISCONNECTED" THEN "pending" ELSE "none")
  /\ UNCHANGED <<interfaceChange, statusFind, observations, evaluate, interfaceLog,
                 statusFindLog, streamRead, reconnectVars, bufferVars>>

\* page.evaluate of stream change j resolves with Store.Stream.mode and the
\* rest of the try block runs.
StreamEvaluateResolves(j, mode) ==
  /\ j \in 1..Len(streamChanges)
  /\ streamEvaluate[j] = "pending"
  /\ streamEvaluate' = [streamEvaluate EXCEPT ![j] = "resolved"]
  /\ statusFindLog' =
       IF mode = "QR" /\ statusFind
         THEN Append(statusFindLog, [status |-> "disconnectedMobile", of |-> j])
         ELSE statusFindLog
  /\ UNCHANGED <<interfaceChange, statusFind, observations, evaluate, interfaceLog,
                 streamChanges, streamRead, reconnectVars, bufferVars>>

\* page.evaluate of stream change j rejects: the catch block logs the error.
StreamEvaluateRejects(j) ==
  /\ j \in 1..Len(streamChanges)
  /\ streamEvaluate[j] = "pending"
  /\ streamEvaluate' = [streamEvaluate EXCEPT ![j] = "rejected"]
  /\ interfaceLog' = AfterProbeFailure(interfaceLog)
  /\ statusFindLog' = AfterProbeFailure(statusFindLog)
  /\ UNCHANGED <<interfaceChange, statusFind, observations, evaluate,
                 streamChanges, streamRead, reconnectVars, bufferVars>>

NextInterface ==
  \/ \E mode \in InterfaceModes, info \in InterfaceStates : OnInterfaceChange(mode, info)
  \/ \E i \in 1..MaxObservations, stream \in SocketStreams : EvaluateResolves(i, stream)
  \/ \E i \in 1..MaxObservations : EvaluateRejects(i)
  \/ \E stateStream \in SocketStreams : OnStreamChange(stateStream)
  \/ \E j \in 1..MaxObservations, mode \in InterfaceModes : StreamEvaluateResolves(j, mode)
  \/ \E j \in 1..MaxObservations : StreamEvaluateRejects(j)

\* ============================================================ new messages

\* Every message that is new counts, whoever sent it.
IsAcceptedAlsoSentByMe(ev) == ev.isNewMsg

\* newMessage && newMessage.isNewMsg && !newMessage.isSentByMe
IsAccepted(ev) == ev.isNewMsg /\ ~ev.isSentByMe

\* The objects processMessageObj may return: some properties hold undefined.
MessageProps == [body : {"v"}, caption : {"v", "undefined"}]

\* Object.keys(message).forEach(key => message[key] === undefined ? delete ...)
DeleteUndefined(props) ==
  [k \in {key \in DOMAIN props : props[key] # "undefined"} |-> props[k]]

\* JSON.stringify of an array of message objects: a property whose value is
\* undefined is left out of the text.
Stringify(ids, heap) ==
  [k \in 1..Len(ids) |->
     [id |-> ids[k],
      props |-> [key \in {x \in DOMAIN heap[ids[k]] : heap[ids[k]][x] # "undefined"}
                   |-> heap[ids[k]][key]]]]

\* The debouncer is started whenever none is pending, queue empty or not.
StartsDebouncerIdle(debouncer, queue) == debouncer = 0

\* The debouncer is started on every pushed message, pending timer or not.
StartsDebouncerAlways(debouncer, queue) == Len(queue) > 0

\* !window.WAPI._newMessagesDebouncer && window.WAPI._newMessagesQueue.length > 0
StartsDebouncer(debouncer, queue) == debouncer = 0 /\ Len(queue) > 0

\* Array.prototype.indexOf, 0-based, -1 when absent.
IndexOf(list, x) ==
  IF \E k \in 1..Len(list) : list[k] = x
    THEN (CHOOSE k \in 1..Len(list) :
            list[k] = x /\ \A j \in 1..(k - 1) : list[j] # x) - 1
    ELSE -1

\* list.splice(index, 1): a negative index counts from the end of the list.
Splice1(list, index) ==
  LET start == IF index < 0
                 THEN (IF Len(list) + index < 0 THEN 0 ELSE Len(list) + index)
                 ELSE (IF index > Len(list) THEN Len(list) ELSE index)
  IN [k \in 1..(IF start < Len(list) THEN Len(list) - 1 ELSE Len(list)) |->
        IF k <= start THEN list[k] ELSE list[k + 1]]

\* What calling the callback cb does to the list of callbacks: a callback
\* may unsubscribe itself, which takes its object out of the list, or
\* subscribe another, which waitNewMessages pushes onto the list.
CallbackEffect(cb, list, count) ==
  CASE cb.behaviour = "unsubscribes" ->
         [list |-> Splice1(list, IndexOf(list, cb)), registered |-> count]
    [] cb.behaviour = "subscribes" ->
         [list |-> Append(list, [id |-> count + 1, rmAfterUse |-> FALSE,
                                 behaviour |-> "returns"]),
          registered |-> count + 1]
    [] OTHER -> [list |-> list, registered |-> count]

\* _newMessagesCallbacks.forEach(...) from position k on: forEach visits the
\* positions below the length the array had when it began (len) and reads
\* each from the array as it is then. acc = [list, registered, calls, rm,
\* threw]: the array, the count of registrations, the calls made, the
\* callbacks collected for removal, and whether a callback threw, which ends
\* the forEach and the function around it.
RECURSIVE ForEachCallback(_, _, _, _, _, _)
ForEachCallback(k, len, kind, batch, flush, acc) ==
  IF k > len \/ k > Len(acc.list) THEN acc
  ELSE
    LET cb == acc.list[k]
        called == cb.behaviour # "undefined"   \* callback !== undefined
        calls == IF called
                   THEN Append(acc.calls, [cb |-> cb.id, kind |-> kind,
                                           batch |-> batch, flush |-> flush])
                   ELSE acc.calls
        effect == IF called THEN CallbackEffect(cb, acc.list, acc.registered)
                  ELSE [list |-> acc.list, registered |-> acc.registered]
    IN IF called /\ cb.behaviour = "throws"
         THEN [acc EXCEPT !.calls = calls, !.threw = TRUE]
         ELSE ForEachCallback(k + 1, len, kind, batch, flush,
                [list |-> effect.list,
                 registered |-> effect.registered,
                 calls |-> calls,
                 rm |-> IF kind = "batch" /\ cb.rmAfterUse
                          THEN Append(acc.rm, cb) ELSE acc.rm,
                 threw |-> FALSE])

\* The forEach over the callbacks as they are registered now.
ForEachRegistered(kind, batch, flush) ==
  ForEachCallback(1, Len(newMessagesCallbacks), kind, batch, flush,
                  [list |-> newMessagesCallbacks, registered |-> registered,
                   calls |-> <<>>, rm |-> <<>>, threw |-> FALSE])

\* removeCallbacks.forEach(rm => callbacks.splice(callbacks.indexOf(rm), 1))
RECURSIVE RemoveCallbacks(_, _, _)
RemoveCallbacks(cbs, rm, k) ==
  IF k > Len(rm) THEN cbs
  ELSE RemoveCallbacks(Splice1(cbs, IndexOf(cbs, rm[k])), rm, k + 1)

\* The calls made into the listener module so far.
Inputs == Len(rawEvents) + registered + Len(unloads)

InitBuffer ==
  /\ rawEvents = <<>>
  /\ processing = <<>>
  /\ msgObj = <<>>
  /\ newMessagesQueue = <<>>
  /\ newMessagesBuffer = <<>>
  /\ newMessagesDebouncer = 0
  /\ timer = [count |-> 0, left |-> 0]
  /\ newMessagesCallbacks = <<>>
  /\ registered = 0
  /\ savedMsgs = <<>>
  /\ unloads = <<>>
  /\ accepted = <<>>
  /\ flushLog = <<>>
  /\ handlerCalls = <<>>

\* Time passes while the timer runs.
Tick ==
  /\ newMessagesDebouncer # 0
  /\ timer.left > 0
  /\ timer' = [timer EXCEPT !.left = timer.left - TickMs]
  /\ UNCHANGED <<rawEvents, processing, msgObj, newMessagesQueue, newMessagesBuffer,
                 newMessagesDebouncer, newMessagesCallbacks, registered,
                 savedMsgs, unloads, accepted, flushLog, handlerCalls,
                 reconnectVars, interfaceVars>>

\* Store.Msg emits 'add': the listener runs up to `await processMessageObj`
\* or, for a message it does not accept, to its end.
MsgAdd(isNewMsg, isSentByMe) ==
  LET ev == [isNewMsg |-> isNewMsg, isSentByMe |-> isSentByMe] IN
  /\ Inputs < MaxInputs
  /\ rawEvents' = Append(rawEvents, ev)
  /\ processing' = Append(processing, IF IsAccepted(ev) THEN "processing" ELSE "dropped")
  /\ msgObj' = Append(msgObj, [body |-> "v"])
  /\ UNCHANGED <<newMessagesQueue, newMessagesBuffer, newMessagesDebouncer,
                 timer, newMessagesCallbacks, registered, savedMsgs, unloads,
                 accepted, flushLog, handlerCalls, reconnectVars, interfaceVars>>

\* processMessageObj of event e resolves with a message object and the
\* listener continues: both pushes, then the debouncer.
ProcessMessageObjResolves(e, props) ==
  /\ e \in 1..Len(rawEvents)
  /\ processing[e] = "processing"
  /\ processing' = [processing EXCEPT ![e] = "pushed"]
  /\ msgObj' = [msgObj EXCEPT ![e] = props]
  /\ newMessagesQueue' = Append(newMessagesQueue, e)
  /\ newMessagesBuffer' = Append(newMessagesBuffer, e)
  /\ accepted' = Append(accepted, e)
  /\ IF StartsDebouncer(newMessagesDebouncer, newMessagesQueue')
       THEN /\ newMessagesDebouncer' = timer.count + 1
            /\ timer' = [count |-> timer.count + 1, left |-> DebounceMs]
       ELSE UNCHANGED <<newMessagesDebouncer, timer>>
  /\ UNCHANGED <<rawEvents, newMessagesCallbacks, registered, savedMsgs,
                 unloads, flushLog, handlerCalls, reconnectVars, interfaceVars>>

\* processMessageObj of event e resolves with a falsy value: nothing is
\* pushed, and the debouncer test finds the state it was left in.
ProcessMessageObjFalsy(e) ==
  /\ e \in 1..Len(rawEvents)
  /\ processing[e] = "processing"
  /\ processing' = [processing EXCEPT ![e] = "falsy"]
  /\ IF StartsDebouncer(newMessagesDebouncer, newMessagesQueue)
       THEN /\ newMessagesDebouncer' = timer.count + 1
            /\ timer' = [count |-> timer.count + 1, left |-> DebounceMs]
       ELSE UNCHANGED <<newMessagesDebouncer, timer>>
  /\ UNCHANGED <<rawEvents, msgObj, newMessagesQueue, newMessagesBuffer,
                 newMessagesCallbacks, registered, savedMsgs, unloads, accepted,
                 flushLog, handlerCalls, reconnectVars, interfaceVars>>

\* processMessageObj of event e rejects: the listener ends with the error.
ProcessMessageObjRejects(e) ==
  /\ e \in 1..Len(rawEvents)
  /\ processing[e] = "processing"
  /\ processing' = [processing EXCEPT ![e] = "rejected"]
  /\ UNCHANGED <<rawEvents, msgObj, newMessagesQueue, newMessagesBuffer,
                 newMessagesDebouncer, timer, newMessagesCallbacks, registered,
                 savedMsgs, unloads, accepted, flushLog, handlerCalls,
                 reconnectVars, interfaceVars>>

\* The timer expires and its callback runs: the flush.
DebouncerFires ==
  /\ newMessagesDebouncer # 0
  /\ timer.left = 0
  /\ LET queuedMessages == newMessagesQueue
         flush == Len(flushLog) + 1
         done == ForEachRegistered("batch", queuedMessages, flush)
     IN /\ newMessagesDebouncer' = 0
        /\ newMessagesQueue' = <<>>
        /\ flushLog' = Append(flushLog, [batch |-> queuedMessages,
                                         callbacks |-> newMessagesCallbacks])
        /\ handlerCalls' = handlerCalls \o done.calls
        /\ registered' = done.registered
        /\ newMessagesCallbacks' =
             IF done.threw THEN done.list
             ELSE RemoveCallbacks(done.list, done.rm, 1)
  /\ UNCHANGED <<rawEvents, processing, msgObj, newMessagesBuffer, timer,
                 savedMsgs, unloads, accepted, reconnectVars, interfaceVars>>

\* WAPI.waitNewMessages(rmCallback, callback) registers a callback object.
\* behaviour: what the callback, a function, does when it is called.
WaitNewMessages(rmCallback, behaviour) ==
  /\ Inputs < MaxInputs
  /\ registered' = registered + 1
  /\ newMessagesCallbacks' =
       Append(newMessagesCallbacks,
              [id |-> registered + 1, rmAfterUse |-> rmCallback, behaviour |-> behaviour])
  /\ UNCHANGED <<rawEvents, processing, msgObj, newMessagesQueue,
                 newMessagesBuffer, newMessagesDebouncer, timer, savedMsgs, unloads,
                 accepted, flushLog, handlerCalls, reconnectVars, interfaceVars>>

\* window.WAPI._unloadInform(). setItem: what sessionStorage.setItem does, it
\* returns or it throws (the quota is exceeded, the storage is disabled); an
\* exception leaves the function at that statement.
UnloadInform(setItem) ==
  /\ Inputs < MaxInputs
  /\ unloads' = Append(unloads, setItem)
  /\ msgObj' = [e \in 1..Len(msgObj) |->
                  IF \E k \in 1..Len(newMessagesBuffer) : newMessagesBuffer[k] = e
                    THEN DeleteUndefined(msgObj[e]) ELSE msgObj[e]]
  /\ IF setItem = "throws"
       THEN UNCHANGED <<savedMsgs, handlerCalls, newMessagesCallbacks, registered>>
       ELSE LET done == ForEachRegistered("reload", <<>>, 0)
            IN /\ savedMsgs' = <<Stringify(newMessagesBuffer, msgObj')>>
               /\ handlerCalls' = handlerCalls \o done.calls
               /\ newMessagesCallbacks' = done.list
               /\ registered' = done.registered
  /\ UNCHANGED <<rawEvents, processing, newMessagesQueue, newMessagesBuffer,
                 newMessagesDebouncer, timer, accepted, flushLog, reconnectVars,
                 interfaceVars>>

NextBuffer ==
  \/ Tick
  \/ \E isNewMsg \in BOOLEAN, isSentByMe \in BOOLEAN : MsgAdd(isNewMsg, isSentByMe)
  \/ \E e \in 1..MaxInputs, props \in MessageProps : ProcessMessageObjResolves(e, props)
  \/ \E e \in 1..MaxInputs : ProcessMessageObjFalsy(e)
  \/ \E e \in 1..MaxInputs : ProcessMessageObjRejects(e)
  \/ DebouncerFires
  \/ \E rmCallback \in BOOLEAN, behaviour \in {"returns", "throws"} :
       WaitNewMessages(rmCallback, behaviour)
  \/ \E setItem \in {"returns", "throws"} : UnloadInform(setItem)

\* ===================================================================== specs

Init == InitReconnect /\ InitInterface /\ InitBuffer

Next == NextReconnect \/ NextInterface \/ NextBuffer

Spec == Init /\ [][Next]_vars

InitOnlyReconnect == Init /\ interfaceChange = TRUE /\ statusFind = TRUE

SpecReconnect == InitOnlyReconnect /\ [][NextReconnect]_vars

InitOnlyInterface == Init /\ reconnectQrcode = TRUE

SpecInterface == InitOnlyInterface /\ [][NextInterface]_vars

InitOnlyBuffer ==
  Init /\ reconnectQrcode = TRUE /\ interfaceChange = TRUE /\ statusFind = TRUE

SpecBuffer == InitOnlyBuffer /\ [][NextBuffer]_vars

\* The listener with callbacks that change the list of callbacks when they
\* are called; every message is accepted and processed to an object.
NextHandlers ==
  \/ Tick
  \/ MsgAdd(TRUE, FALSE)
  \/ \E e \in 1..MaxInputs :
       ProcessMessageObjResolves(e, [body |-> "v", caption |-> "v"])
  \/ DebouncerFires
  \/ \E rmCallback \in BOOLEAN, behaviour \in {"returns", "unsubscribes", "subscribes"} :
       WaitNewMessages(rmCallback, behaviour)

SpecHandlers == InitOnlyBuffer /\ [][NextHandlers]_vars

\* =================================================== claims: reconnect

Count(seq, x) == Cardinality({k \in 1..Len(seq) : seq[k] = x})

\* C1: single-flight reconnect. At most one pairing procedure
\* (client.waitForLogin) is in flight in every reachable state, and as long
\* as the first attempt has not resolved, however many UNPAIRED or
\* UNPAIRED_IDLE notifications have arrived meanwhile, the pairing procedure
\* has been invoked exactly once in total.
C1_SingleFlight ==
  /\ Cardinality(InFlight) <= 1
  /\ (Len(loginPromises) >= 1 /\ loginPromises[1] = "pending")
       => Len(loginPromises) = 1

\* C2: the reconnectQrcode hook is invoked exactly once for an attempt whose
\* pairing procedure resolved true, and not at all for an attempt that is
\* still pending, resolved false or threw.
C2_HookOnlyOnSuccess ==
  reconnectQrcode =>
    \A p \in 1..Len(loginPromises) :
      Count(reconnectQrcodeCalls, p) = IF loginPromises[p] = "true" THEN 1 ELSE 0

\* C3: a reconnect attempt is started exactly when a notification equals
\* UNPAIRED or UNPAIRED_IDLE and no attempt is pending (no pairing procedure
\* is unresolved); a notification with any other state never starts one; the
\* notifications [CONNECTED, UNPAIRED] start exactly one attempt.
C3_StartedExactlyWhen ==
  /\ [][(Len(loginPromises') > Len(loginPromises))
          <=> /\ Len(stateLog') > Len(stateLog)
              /\ IsUnpaired(stateLog'[Len(stateLog')])
              /\ InFlight = {}]_vars
  /\ [](stateLog = <<"CONNECTED", "UNPAIRED">> => Len(loginPromises) = 1)

\* =================================================== claims: interface

\* The transition table of the lifecycle states, (mode, subState) -> state.
TransitionTable(mode, info) ==
  IF mode = "MAIN" THEN "chatsAvailable"
  ELSE IF mode = "QR"
    THEN (IF info = "OPENING" THEN "qrcodeOpening"
          ELSE IF info = "PAIRING" THEN "qrcodeLoading" ELSE "qrcodeNormal")
    ELSE (IF info = "OPENING" THEN "syncingOpening"
          ELSE IF info = "PAIRING" THEN "syncingLoading" ELSE "syncingNormal")

Reports(i) == {k \in 1..Len(interfaceLog) : interfaceLog[k].obs = i}

\* C4: a notification is emitted to interfaceChange only when its target
\* differs from the state held (the target of the notification before it),
\* and an observation identical to the previous observation produces no
\* notification.
C4_NoRepeatedNotification ==
  /\ \A k \in 2..Len(interfaceLog) :
       interfaceLog[k].status # interfaceLog[k - 1].status
  /\ \A k \in 1..Len(interfaceLog) :
       LET i == interfaceLog[k].obs IN
       i > 1 => observations[i] # observations[i - 1]

\* C5 (as stated): every observation whose handler has finished has reported
\* exactly one state to the observer, the one of the transition table.
C5_ExactlyOneState ==
  interfaceChange =>
    \A i \in 1..Len(observations) :
      evaluate[i] # "pending" =>
        /\ Cardinality(Reports(i)) = 1
        /\ \A k \in Reports(i) :
             interfaceLog[k].status =
               TransitionTable(observations[i].mode, observations[i].info)

\* C5 (amended): every state reported for an observation is the one the
\* transition table gives for its (mode, subState), whatever was reported
\* before and whatever the socket stream read returned; an observation
\* reports exactly one state when its handler has finished without a failed
\* probe read (MAIN and SYNCING read no probe), and none while the probe
\* read is pending or after it raised, or when no observer is registered.
C5_ReportedPerTable ==
  /\ \A k \in 1..Len(interfaceLog) :
       LET o == observations[interfaceLog[k].obs] IN
       /\ interfaceLog[k].status \in InterfaceStateChange
       /\ interfaceLog[k].status = TransitionTable(o.mode, o.info)
  /\ \A i \in 1..Len(observations) :
       Cardinality(Reports(i)) =
         IF interfaceChange /\ evaluate[i] \in {"none", "resolved"} THEN 1 ELSE 0

\* A QR observation was reported after its probe read returned DISCONNECTED,
\* a MAIN observation was reported, and the probe read of another QR
\* observation raised.
C5_Witness ==
  /\ interfaceChange
  /\ \E i, j, m \in 1..Len(observations) :
       /\ evaluate[i] = "resolved"
       /\ Count(statusFindLog, [status |-> "disconnected", of |-> i]) = 1
       /\ Reports(i) # {}
       /\ evaluate[j] = "rejected"
       /\ observations[m].mode = "MAIN" /\ Reports(m) # {}

\* C6: under every interleaving of the handlers (no probe read raising),
\* notifications reach the observer in the order of the observations and
\* none is dropped: once no handler is suspended, every observation has been
\* notified, in order; the observations [{QR,OPENING},{QR,NORMAL},{MAIN}]
\* yield qrcodeOpening, qrcodeNormal, chatsAvailable and end in chatsAvailable.
C6_DeliveredInOrder ==
  (interfaceChange /\ \A i \in 1..Len(observations) : evaluate[i] # "rejected") =>
    /\ \A k \in 2..Len(interfaceLog) :
         interfaceLog[k - 1].obs < interfaceLog[k].obs
    /\ (\A i \in 1..Len(observations) : evaluate[i] # "pending")
         => Len(interfaceLog) = Len(observations)
    /\ ( /\ Len(observations) = 3
         /\ observations[1] = [mode |-> "QR", info |-> "OPENING"]
         /\ observations[2] = [mode |-> "QR", info |-> "NORMAL"]
         /\ observations[3].mode = "MAIN"
         /\ \A i \in 1..3 : evaluate[i] # "pending" )
         => [k \in 1..Len(interfaceLog) |-> interfaceLog[k].status]
              = <<"qrcodeOpening", "qrcodeNormal", "chatsAvailable">>

\* ================================================ claims: new messages

RECURSIVE Batches(_, _)
\* The batches of the first n flushes, one after the other.
Batches(log, n) == IF n = 0 THEN <<>> ELSE Batches(log, n - 1) \o log[n].batch

IsPrefix(a, b) == Len(a) <= Len(b) /\ \A k \in 1..Len(a) : a[k] = b[k]

CallsOfFlush(f) == SelectSeq(handlerCalls, LAMBDA c : c.kind = "batch" /\ c.flush = f)

\* C7: debounce. The timer of DebounceMs is started by the message pushed
\* onto an empty queue and by nothing else; while it runs, pushed messages
\* are appended and the timer is neither replaced nor restarted; its expiry,
\* after DebounceMs, makes exactly one flush, whose batch is the whole queue,
\* and clears queue and timer; so the batches flushed so far followed by the
\* queue are the messages accepted so far, each in one batch, and a message
\* accepted after a flush starts a new timer and is flushed separately.
C7_Debounce ==
  /\ [](Batches(flushLog, Len(flushLog)) \o newMessagesQueue = accepted)
  /\ [](Len(flushLog) = timer.count - (IF newMessagesDebouncer # 0 THEN 1 ELSE 0))
  /\ [][(Len(accepted') > Len(accepted) /\ newMessagesQueue = <<>>)
          => (newMessagesDebouncer = 0 /\ newMessagesDebouncer' # 0)]_vars
  /\ [][(newMessagesDebouncer = 0 /\ newMessagesDebouncer' # 0)
          => /\ newMessagesQueue = <<>> /\ Len(newMessagesQueue') = 1
             /\ Len(accepted') = Len(accepted) + 1
             /\ timer' = [count |-> timer.count + 1, left |-> DebounceMs]]_vars
  /\ [][(newMessagesDebouncer # 0 /\ newMessagesDebouncer' # 0)
          => /\ newMessagesDebouncer' = newMessagesDebouncer
             /\ timer'.count = timer.count /\ timer'.left <= timer.left
             /\ IsPrefix(newMessagesQueue, newMessagesQueue')]_vars
  /\ [][(Len(flushLog') # Len(flushLog))
          => /\ Len(flushLog') = Len(flushLog) + 1
             /\ newMessagesDebouncer # 0 /\ timer.left = 0
             /\ flushLog'[Len(flushLog')].batch = newMessagesQueue
             /\ newMessagesQueue # <<>>
             /\ newMessagesQueue' = <<>> /\ newMessagesDebouncer' = 0]_vars

\* Two messages were accepted in one timer window and flushed together to a
\* registered callback; a third, accepted after that flush, was flushed by a
\* second timer.
C7_Witness ==
  /\ Len(flushLog) = 2
  /\ Len(flushLog[1].batch) = 2
  /\ Len(flushLog[2].batch) = 1
  /\ timer.count = 2
  /\ Len(CallsOfFlush(1)) = 1

\* C8: each flush calls every registered callback exactly once, in
\* registration order, with the one batch (callbacks that throw set aside),
\* and the messages of the batch are in the order their 'add' events arrived.
C8_FlushOrder ==
  \A f \in 1..Len(flushLog) :
    LET batch == flushLog[f].batch
        cbs == flushLog[f].callbacks
    IN /\ \A a, b \in 1..Len(batch) : a < b => batch[a] < batch[b]
       /\ (\A k \in 1..Len(cbs) : cbs[k].behaviour = "returns")
            => CallsOfFlush(f) =
                 [k \in 1..Len(cbs) |->
                    [cb |-> cbs[k].id, kind |-> "batch", batch |-> batch, flush |-> f]]

BatchCalls(id) ==
  {k \in 1..Len(handlerCalls) : handlerCalls[k].cb = id /\ handlerCalls[k].kind = "batch"}

\* C9: a callback registered with rmAfterUse = true is called with a batch
\* at most once over all flushes (the status -1 calls of _unloadInform not
\* counted), and once a flush has called it, it is no longer registered.
C9_OneShotOnce ==
  \A f \in 1..Len(flushLog) :
    \A k \in 1..Len(flushLog[f].callbacks) :
      LET cb == flushLog[f].callbacks[k] IN
      cb.rmAfterUse =>
        /\ Cardinality(BatchCalls(cb.id)) <= 1
        /\ BatchCalls(cb.id) # {}
             => \A j \in 1..Len(newMessagesCallbacks) : newMessagesCallbacks[j].id # cb.id

\* The messages of ids as they are to be persisted: without the properties
\* whose value is undefined.
Sanitized(ids) ==
  [k \in 1..Len(ids) |->
     [id |-> ids[k],
      props |-> [key \in {x \in DOMAIN msgObj[ids[k]] : msgObj[ids[k]][x] # "undefined"}
                   |-> msgObj[ids[k]][key]]]]

\* C10: _unloadInform, called with k messages buffered and undelivered (the
\* queue), leaves under 'saved_msgs' a snapshot of exactly those k messages
\* without their undefined properties, replacing any earlier one, calls
\* every registered callback (callbacks that throw set aside) with status -1,
\* and leaves the queue empty (a setItem that throws set aside).
C10_Reload ==
  [][(Len(unloads') > Len(unloads) /\ unloads'[Len(unloads')] = "returns")
       => /\ savedMsgs' = <<Sanitized(newMessagesQueue)>>
          /\ newMessagesQueue' = <<>>
          /\ (\A k \in 1..Len(newMessagesCallbacks) :
                newMessagesCallbacks[k].behaviour = "returns")
               => handlerCalls' = handlerCalls \o
                    [k \in 1..Len(newMessagesCallbacks) |->
                       [cb |-> newMessagesCallbacks[k].id, kind |-> "reload",
                        batch |-> <<>>, flush |-> 0]]]_vars

\* ============================================= claims: reconnect marker

Unpaired(log) == {k \in 1..Len(log) : IsUnpaired(log[k])}

\* C14: a notification handled while the marker is set leaves the marker
\* unchanged, so the marker stays set for as long as a pairing procedure is
\* unresolved.
C14_MarkerHeld ==
  /\ [][(Len(stateLog') > Len(stateLog) /\ waitLoginPromise # 0)
          => waitLoginPromise' = waitLoginPromise]_vars
  /\ [](InFlight # {} => waitLoginPromise # 0)

\* C15: the step in which a pairing procedure completes, whether it resolved
\* true, resolved false or threw, leaves the marker cleared; the marker is
\* never set to an attempt that has completed; and the next UNPAIRED or
\* UNPAIRED_IDLE notification handled with the marker cleared starts a new
\* attempt.
C15_MarkerCleared ==
  /\ [][(\E p \in 1..Len(loginPromises) :
           loginPromises[p] = "pending" /\ loginPromises'[p] # "pending")
          => waitLoginPromise' = 0]_vars
  /\ [](waitLoginPromise # 0 =>
          /\ waitLoginPromise \in 1..Len(loginPromises)
          /\ loginPromises[waitLoginPromise] = "pending")
  /\ [][(/\ Len(stateLog') > Len(stateLog)
         /\ IsUnpaired(stateLog'[Len(stateLog')])
         /\ InFlight = {})
          => /\ Len(loginPromises') = Len(loginPromises) + 1
             /\ waitLoginPromise' = Len(loginPromises')]_vars

\* Attempts have completed in each of the three ways, and a further attempt
\* was started by a notification after them.
C15_Witness ==
  /\ \E a, b, c \in 1..Len(loginPromises) :
       /\ loginPromises[a] = "true"
       /\ loginPromises[b] = "false"
       /\ loginPromises[c] = "rejected"
  /\ waitLoginPromise = Len(loginPromises)
  /\ loginPromises[Len(loginPromises)] = "pending"

\* C16: the pairing procedure is invoked only in the step that handles an
\* UNPAIRED or UNPAIRED_IDLE notification, never in the step in which an
\* attempt completes, so its invocations never outnumber those notifications.
C16_NoAutomaticRetry ==
  /\ [](Len(loginPromises) <= Cardinality(Unpaired(stateLog)))
  /\ [][Len(loginPromises') # Len(loginPromises)
          => /\ Len(loginPromises') = Len(loginPromises) + 1
             /\ Len(stateLog') = Len(stateLog) + 1
             /\ IsUnpaired(stateLog'[Len(stateLog')])]_vars

\* An attempt resolved false, another threw, no attempt is pending and none
\* was started since: two notifications, two invocations.
C16_Witness ==
  /\ Len(loginPromises) = 2
  /\ loginPromises[1] = "false"
  /\ loginPromises[2] = "rejected"
  /\ Cardinality(Unpaired(stateLog)) = 2
  /\ Len(stateLog) = MaxStateChanges

\* ============================================= claims: ingestion and tail

\* The events of a list of ids that are not new or were sent by the user.
NotAcceptable(ids) ==
  {k \in 1..Len(ids) : ~(rawEvents[ids[k]].isNewMsg /\ ~rawEvents[ids[k]].isSentByMe)}

\* C12: only an event that is new and not sent by the user is ever in the
\* delivery queue, in the durable tail or in a batch handed to a handler, and
\* the step that ingests any other event leaves the queue, the tail, the
\* timer and the handler list unchanged and invokes no handler.
C12_OnlyAccepted ==
  /\ [](/\ NotAcceptable(accepted) = {}
        /\ NotAcceptable(newMessagesQueue) = {}
        /\ NotAcceptable(newMessagesBuffer) = {}
        /\ \A c \in 1..Len(handlerCalls) : NotAcceptable(handlerCalls[c].batch) = {}
        /\ \A e \in 1..Len(rawEvents) :
             ~(rawEvents[e].isNewMsg /\ ~rawEvents[e].isSentByMe)
               => processing[e] = "dropped")
  /\ [][(/\ Len(rawEvents') > Len(rawEvents)
         /\ ~(rawEvents'[Len(rawEvents')].isNewMsg
              /\ ~rawEvents'[Len(rawEvents')].isSentByMe))
          => UNCHANGED <<newMessagesQueue, newMessagesBuffer, newMessagesDebouncer,
                         timer, newMessagesCallbacks, handlerCalls, flushLog>>]_vars

\* An event sent by the user and an event that is not new were ingested while
\* the timer ran for an accepted event, which was then handed to a handler.
C12_Witness ==
  /\ Len(rawEvents) = 3
  /\ IsAccepted(rawEvents[1])
  /\ rawEvents[2].isSentByMe /\ rawEvents[2].isNewMsg
  /\ ~rawEvents[3].isNewMsg
  /\ \E c \in 1..Len(handlerCalls) : handlerCalls[c].batch = <<1>>

\* C17: the durable tail holds exactly the events accepted and not yet
\* delivered, in every reachable state: it grows with the delivery queue and
\* a flush empties it with the queue.
C17_TailIsUndelivered == newMessagesBuffer = newMessagesQueue

\* C20: while no event has been pushed since the last flush (or the start)
\* no timer is pending; a timer is armed only in the step that pushes an
\* accepted event; and a flush happens only with a non-empty queue.
C20_NoIdleWakeup ==
  /\ [](newMessagesQueue = <<>> => newMessagesDebouncer = 0)
  /\ [](\A f \in 1..Len(flushLog) : flushLog[f].batch # <<>>)
  /\ [][(newMessagesDebouncer' # 0 /\ newMessagesDebouncer' # newMessagesDebouncer)
          => /\ Len(accepted') = Len(accepted) + 1
             /\ newMessagesQueue' = Append(newMessagesQueue, accepted'[Len(accepted')])]_vars
  /\ [][Len(flushLog') > Len(flushLog) => newMessagesQueue # <<>>]_vars

\* After a flush, an event was dropped by the filter and another was
\* processed to nothing: the queue is empty and no timer is pending.
C20_Witness ==
  /\ Len(flushLog) = 1
  /\ \E e \in 1..Len(rawEvents) : processing[e] = "falsy" /\ e > flushLog[1].batch[1]
  /\ \E e \in 1..Len(rawEvents) : processing[e] = "dropped" /\ e > flushLog[1].batch[1]
  /\ newMessagesQueue = <<>>
  /\ newMessagesDebouncer = 0

\* ============================================= claims: handler notification

\* The calls of kind `kind` that a step appends to handlerCalls when it calls
\* each callback of cbs once, in the order of the list.
CallsEach(cbs, kind, batch, flush) ==
  [k \in 1..Len(cbs) |-> [cb |-> cbs[k].id, kind |-> kind, batch |-> batch,
                           flush |-> flush]]

\* C11: in a flush whose callbacks return or throw, every callback registered
\* at its start is called once with the batch, in order, whether or not an
\* earlier one threw, and at its end no callback flagged rmAfterUse is left.
C11_HandlerFailureIsolated ==
  [][(/\ Len(flushLog') > Len(flushLog)
      /\ \A k \in 1..Len(newMessagesCallbacks) :
           newMessagesCallbacks[k].behaviour \in {"returns", "throws"})
       => /\ handlerCalls' = handlerCalls \o
               CallsEach(newMessagesCallbacks, "batch", newMessagesQueue, Len(flushLog'))
          /\ newMessagesCallbacks' =
               SelectSeq(newMessagesCallbacks, LAMBDA cb : ~cb.rmAfterUse)]_vars

\* C19: a flush calls each callback that was registered when it began
\* exactly once, and no other, also when callbacks unsubscribe themselves or
\* subscribe others while they are called (none throws; a callback here
\* unsubscribes only itself, in its own turn, so none is unsubscribed before
\* its turn).
C19_FlushOverSnapshot ==
  [][(/\ Len(flushLog') > Len(flushLog)
      /\ \A k \in 1..Len(newMessagesCallbacks) :
           newMessagesCallbacks[k].behaviour \in {"returns", "unsubscribes", "subscribes"})
       => \A k \in 1..Len(newMessagesCallbacks) :
            Cardinality({c \in (Len(handlerCalls) + 1)..Len(handlerCalls') :
                           handlerCalls'[c].cb = newMessagesCallbacks[k].id}) = 1]_vars

\* C18: an onImminentReload whose persistence write raises still notifies
\* every registered handler with the reload status (here for handlers that
\* themselves return normally).
C18_ReloadAlwaysNotifies ==
  [][(/\ Len(unloads') > Len(unloads)
      /\ unloads'[Len(unloads')] = "throws"
      /\ \A k \in 1..Len(newMessagesCallbacks) :
           newMessagesCallbacks[k].behaviour = "returns")
       => handlerCalls' = handlerCalls \o
            CallsEach(newMessagesCallbacks, "reload", <<>>, 0)]_vars

\* ============================================= claims: failed probe reads

\* The step is the catch of a failed page.evaluate, in either handler.
ProbeFails ==
  \/ \E i \in 1..Len(evaluate) : evaluate[i] = "pending" /\ evaluate'[i] = "rejected"
  \/ \E j \in 1..Len(streamEvaluate) :
       streamEvaluate[j] = "pending" /\ streamEvaluate'[j] = "rejected"

Notices(i) ==
  {k \in 1..Len(statusFindLog) :
     statusFindLog[k] = [status |-> "disconnected", of |-> i]}

\* C21: a 'disconnected' notice is made only for an observation of mode QR
\* whose socket stream read returned DISCONNECTED, never for SYNCING or MAIN,
\* and once for each such observation when statusFind is registered; the
\* observation is still reported to the observer once, with the state the
\* transition table gives for its (mode, subState); and the step that makes
\* the notice changes nothing of what the observer was told before.
C21_DisconnectedNotice ==
  /\ [](\A i \in 1..Len(observations) :
          /\ Notices(i) # {} =>
               /\ observations[i].mode = "QR"
               /\ streamRead[i] = "DISCONNECTED"
          /\ (observations[i].mode = "QR" /\ streamRead[i] = "DISCONNECTED") =>
               /\ Cardinality(Notices(i)) = (IF statusFind THEN 1 ELSE 0)
               /\ Cardinality(Reports(i)) = (IF interfaceChange THEN 1 ELSE 0)
               /\ \A k \in Reports(i) :
                    interfaceLog[k].status =
                      TransitionTable(observations[i].mode, observations[i].info))
  /\ [][Len(statusFindLog') > Len(statusFindLog)
          => /\ Len(interfaceLog') >= Len(interfaceLog)
             /\ \A k \in 1..Len(interfaceLog) : interfaceLog'[k] = interfaceLog[k]]_vars

\* A QR observation whose stream read returned DISCONNECTED got its notice
\* and its state report, a QR observation whose read returned CONNECTED and
\* a MAIN observation got their state report and no notice.
C21_Witness ==
  /\ interfaceChange /\ statusFind
  /\ \E i, j, m \in 1..Len(observations) :
       /\ observations[i].mode = "QR" /\ streamRead[i] = "DISCONNECTED"
       /\ Notices(i) # {} /\ Reports(i) # {}
       /\ observations[j].mode = "QR" /\ streamRead[j] = "CONNECTED"
       /\ Notices(j) = {} /\ Reports(j) # {}
       /\ observations[m].mode = "MAIN"
       /\ Notices(m) = {} /\ Reports(m) # {}

\* ============================================= claims: timer and delivery

\* The flushes whose batch holds message e.
FlushesOf(e) ==
  {f \in 1..Len(flushLog) :
     \E k \in 1..Len(flushLog[f].batch) : flushLog[f].batch[k] = e}

\* The calls in which callback id was passed the batch of flush f.
PassedTo(id, f) ==
  {c \in 1..Len(handlerCalls) :
     /\ handlerCalls[c].kind = "batch" /\ handlerCalls[c].flush = f
     /\ handlerCalls[c].cb = id /\ handlerCalls[c].batch = flushLog[f].batch}

\* C22: while the queue is non-empty a timer is pending; the timers started
\* and not yet expired are never more than one; no accepted message is in
\* two batches; and a message that was flushed was passed, in the one batch
\* of its flush, once to every callback registered at the time of that
\* flush.
C22_DeliveredOnce ==
  /\ newMessagesQueue # <<>> => newMessagesDebouncer # 0
  /\ timer.count - Len(flushLog) = (IF newMessagesDebouncer # 0 THEN 1 ELSE 0)
  /\ \A k \in 1..Len(accepted) :
       /\ Cardinality(FlushesOf(accepted[k])) <= 1
       /\ \A f \in FlushesOf(accepted[k]) :
            \A j \in 1..Len(flushLog[f].callbacks) :
              Cardinality(PassedTo(flushLog[f].callbacks[j].id, f)) = 1

\* ============================================= claims: removal after use

\* The callback object cb is in the list.
Registered(list, cb) == \E k \in 1..Len(list) : list[k] = cb

\* C23: a flush (none of whose callbacks throws) takes no callback flagged
\* rmAfterUse = false out of the list: such a callback, unless it
\* unsubscribes itself, is still registered after the flush, also when a
\* callback flagged rmAfterUse took itself out of the list while it was
\* called.
C23_RemovesOnlyInvokedOneShots ==
  [][(/\ Len(flushLog') > Len(flushLog)
      /\ \A k \in 1..Len(newMessagesCallbacks) :
           newMessagesCallbacks[k].behaviour \in {"returns", "unsubscribes", "subscribes"})
       => \A k \in 1..Len(newMessagesCallbacks) :
            LET cb == newMessagesCallbacks[k] IN
            (cb.behaviour # "unsubscribes" /\ ~cb.rmAfterUse)
              => Registered(newMessagesCallbacks', cb)]_vars

====
